---- MODULE Spec2Model ----
(***************************************************************************)
(* git-add-all (src/main.rs): compose a commit message from the branch     *)
(* name and the command-line words, stage every changed path, commit.      *)
(*                                                                         *)
(* A string is a sequence of one-character strings, so that starts_with,   *)
(* find, slicing and join are computed character by character.             *)
(***************************************************************************)
EXTENDS Integers, Sequences, FiniteSets, TLC

VARIABLES
    pc,         \* position of main (or of the unit test)
    args,       \* State.args: Vec<String>
    branch,     \* State.branch: String
    message,    \* let message = state.message()
    headBranch, \* on disk: the branch HEAD names (head.shorthand())
    statuses,   \* on disk: what repo.statuses(None) reports, in path order
    pos,        \* the for loop's position in statuses (1-based)
    index,      \* let mut index: the in-memory index, path -> entry
    diskIndex,  \* on disk: the index file
    is_empty,   \* let mut is_empty
    trees,      \* on disk: tree objects of the object database
    tree_id,    \* let tree_id / let tree
    user,       \* let user: the signature
    parent,     \* let head: the oid HEAD's branch points at, once resolved
    commits,    \* on disk: commit objects, commits[i] has oid i
    ref,        \* on disk: the oid the branch of HEAD points at
    oid,        \* let oid: the new commit's oid
    exitCode,   \* the process's exit status, -1 while it runs
    stderr,     \* lines written to standard error
    stdout,     \* lines written to standard output
    stages      \* history: the stages the run has completed, in order

vars == <<pc, args, branch, message, headBranch, statuses, pos, index, diskIndex,
          is_empty, trees, tree_id, user, parent, commits, ref, oid, exitCode,
          stderr, stdout, stages>>

(***************************************************************************)
(* Bounds                                                                  *)
(***************************************************************************)
\* longest argument list of the unit-test specification
MaxArgs == 2
\* number of paths the status scan can report
MaxPaths == 2

(***************************************************************************)
(* Strings                                                                 *)
(***************************************************************************)
KDB == <<"K", "D", "B", "-">>
SLASH == "/"
SPACE == <<" ">>

\* str::starts_with
starts_with(s, p) == Len(s) >= Len(p) /\ SubSeq(s, 1, Len(p)) = p

\* str::find for a one-character pattern: the first position (1-based), 0 for None
find(s, c) ==
    IF \E i \in 1..Len(s) : s[i] = c
    THEN CHOOSE i \in 1..Len(s) : s[i] = c /\ \A j \in 1..(i - 1) : s[j] # c
    ELSE 0

\* [String]::join
RECURSIVE join(_, _)
join(words, sep) ==
    IF Len(words) = 0 THEN <<>>
    ELSE IF Len(words) = 1 THEN words[1]
    ELSE words[1] \o sep \o join(Tail(words), sep)

(***************************************************************************)
(* State: the message composer.  Option<T> is <<>> (None) or <<x>> (Some). *)
(***************************************************************************)
None == <<>>
Some(x) == <<x>>

\* mutant: looks at the last argument instead of the first
args_has_ticket_id_last(a) ==
    IF Len(a) > 0 THEN starts_with(a[Len(a)], KDB) ELSE FALSE

args_has_ticket_id(a) ==
    IF Len(a) > 0 THEN starts_with(a[1], KDB) ELSE FALSE

\* mutant: cuts at the last "/" (rfind) instead of the first
branch_ticket_id_rfind(b) ==
    IF ~starts_with(b, KDB) THEN None
    ELSE IF find(b, SLASH) # 0
         THEN Some(SubSeq(b, 1,
                  (CHOOSE i \in 1..Len(b) :
                      b[i] = SLASH /\ \A j \in (i + 1)..Len(b) : b[j] # SLASH) - 1))
    ELSE Some(b)

\* mutant: the prefix check is missing
branch_ticket_id_any(b) ==
    IF find(b, SLASH) # 0 THEN Some(SubSeq(b, 1, find(b, SLASH) - 1))
    ELSE Some(b)

branch_ticket_id(b) ==
    IF ~starts_with(b, KDB) THEN None
    ELSE IF find(b, SLASH) # 0 THEN Some(SubSeq(b, 1, find(b, SLASH) - 1))
    ELSE Some(b)

split_message(b, a) ==
    IF args_has_ticket_id(a) THEN a
    ELSE IF branch_ticket_id(b) # None THEN <<branch_ticket_id(b)[1]>> \o a
    ELSE a

State_message(b, a) == join(split_message(b, a), SPACE)

(***************************************************************************)
(* Inputs                                                                  *)
(***************************************************************************)
Words ==
    { <<"K", "D", "B", "-", "4">>,      \* KDB-4
      <<"K", "D", "B", "-">>,           \* KDB-
      <<"K", "D", "B">>,                \* KDB
      <<"k", "d", "b", "-", "1">>,      \* kdb-1
      <<"f", "o">>,                     \* fo
      <<>> }                            \* the empty word

BranchNames ==
    { <<"m", "a", "s", "t", "e", "r">>,         \* master
      <<"K", "D", "B", "-", "1">>,              \* KDB-1
      <<"K", "D", "B", "-", "1", "/", "x">>,    \* KDB-1/x
      <<"K", "D", "B", "-", "1", "/", "x", "/", "y">>,  \* KDB-1/x/y
      <<"K", "D", "B", "-", "/", "x">>,         \* KDB-/x
      <<"K", "D", "B", "-">>,                   \* KDB-
      <<"K", "D", "B">>,                        \* KDB
      <<"k", "d", "b", "-", "1", "/", "x">>,    \* kdb-1/x
      <<"f", "/", "K", "D", "B", "-", "1">>,    \* f/KDB-1
      <<"H", "E", "A", "D">> }                  \* HEAD (detached)

ArgLists(n) == UNION { [1..k -> Words] : k \in 0..n }

\* the arguments and branches of the runs of main
RunArgs ==
    { <<>>,
      << <<"f", "o">> >>,
      << <<"K", "D", "B", "-", "4">>, <<"f", "o">> >> }

RunBranches ==
    { <<"m", "a", "s", "t", "e", "r">>,
      <<"K", "D", "B", "-", "1", "/", "x">> }

(***************************************************************************)
(* git2::Status: a set of flags.  The match of main compares the whole     *)
(* value with each constant (constant patterns match by equality), so a    *)
(* status is modelled as the set of its flags and an arm as an equality.   *)
(***************************************************************************)
CURRENT == {}
INDEX_NEW == {"INDEX_NEW"}
INDEX_MODIFIED == {"INDEX_MODIFIED"}
INDEX_DELETED == {"INDEX_DELETED"}
WT_NEW == {"WT_NEW"}
WT_MODIFIED == {"WT_MODIFIED"}
WT_DELETED == {"WT_DELETED"}
IGNORED == {"IGNORED"}
CONFLICTED == {"CONFLICTED"}

\* the statuses an entry of the scan can carry: each single flag, and a path
\* changed both in the index and in the working tree
StatusValues ==
    { CURRENT, INDEX_NEW, INDEX_MODIFIED, INDEX_DELETED, WT_NEW, WT_MODIFIED,
      WT_DELETED, IGNORED, CONFLICTED,
      INDEX_NEW \cup WT_MODIFIED, INDEX_MODIFIED \cup WT_MODIFIED }

Paths == 1..MaxPaths
Absent == {"-"}

\* what repo.statuses(None) can return: at most one entry per path, in path order
StatusLists ==
    { SelectSeq([p \in Paths |-> [path |-> p, status |-> f[p]]],
                LAMBDA e : e.status # Absent) :
        f \in [Paths -> StatusValues \cup {Absent}] }

\* mutant: a conflicted path is staged too
StatusArm_conflicted(status) ==
    IF status = CURRENT \/ status = INDEX_NEW \/ status = INDEX_MODIFIED THEN "add"
    ELSE IF status = WT_NEW \/ status = WT_MODIFIED \/ status = CONFLICTED THEN "add"
    ELSE IF status = WT_DELETED THEN "remove"
    ELSE "skip"

\* the arm of the match a status takes
StatusArm(status) ==
    IF status = CURRENT \/ status = INDEX_NEW \/ status = INDEX_MODIFIED THEN "add"
    ELSE IF status = WT_NEW \/ status = WT_MODIFIED THEN "add"
    ELSE IF status = WT_DELETED THEN "remove"
    ELSE "skip"

(***************************************************************************)
(* The repository on disk.  An index maps each path to "none" (no entry),  *)
(* "old" (the entry as it was on disk when the run started) or "wt" (the   *)
(* entry add_path made from the working-tree file).  A tree object is the  *)
(* index it was written from; a commit's oid is its place in commits.      *)
(***************************************************************************)
\* the index file a repository with these statuses holds
InitialIndex(sts) ==
    [p \in Paths |->
        IF \E i \in 1..Len(sts) :
              /\ sts[i].path = p
              /\ \/ "WT_NEW" \in sts[i].status
                 \/ "IGNORED" \in sts[i].status
                 \/ sts[i].status = INDEX_DELETED
        THEN "none" ELSE "old"]

NoIndex == [p \in Paths |-> "none"]
\* the tree of the commit HEAD points at when the run starts
BaseTree == [p \in Paths |-> "head"]
Identity == "user.name <user.email>"
BaseCommit ==
    [tree |-> BaseTree, parents |-> <<>>, author |-> Identity,
     committer |-> Identity, message |-> <<>>]

\* the exit status of a Rust process whose main thread panicked
PANIC_EXIT == 101

\* mutant: a failure exits the way the two handled ones do, with status 1
Panic_exit1(msg) ==
    /\ pc' = "panicked"
    /\ exitCode' = 1
    /\ stderr' = Append(stderr, msg)

\* expect()/unwrap() on a failure: the panic message, then exit status 101
Panic(msg) ==
    /\ pc' = "panicked"
    /\ exitCode' = PANIC_EXIT
    /\ stderr' = Append(stderr, msg)

Stage(name) == stages' = Append(stages, name)

(***************************************************************************)
(* main                                                                    *)
(***************************************************************************)
Init ==
    /\ pc = "start"
    /\ args \in RunArgs
    /\ branch = <<>>
    /\ message = <<>>
    /\ headBranch \in RunBranches
    /\ statuses \in StatusLists
    /\ pos = 0
    /\ index = NoIndex
    /\ diskIndex = InitialIndex(statuses)
    /\ is_empty = TRUE
    /\ trees = {BaseTree}
    /\ tree_id = None
    /\ user = None
    /\ parent = None
    /\ commits = <<BaseCommit>>
    /\ ref = 1
    /\ oid = None
    /\ exitCode = -1
    /\ stderr = <<>>
    /\ stdout = <<>>
    /\ stages = <<>>

\* mutant: the program name is not skipped, so the list is never empty
is_empty_vec_argv0(v) == Len(v) + 1 = 0

\* Vec::is_empty
is_empty_vec(v) == Len(v) = 0

\* if args.is_empty() { eprintln!(usage); exit(1) }
\* (bin, the program name, is the first element of env::args(), which the
\* operating system supplies)
ParseArgs ==
    /\ pc = "start"
    /\ \/ /\ is_empty_vec(args)
          /\ stderr' = Append(stderr, "Usage")
          /\ exitCode' = 1
          /\ pc' = "exited"
       \/ /\ ~is_empty_vec(args)
          /\ pc' = "discover"
          /\ UNCHANGED <<stderr, exitCode>>
    /\ UNCHANGED <<args, branch, message, headBranch, statuses, pos, index,
                   diskIndex, is_empty, trees, tree_id, user, parent, commits,
                   ref, oid, stdout, stages>>

\* env::current_dir(), Repository::discover
Discover ==
    /\ pc = "discover"
    /\ \/ /\ pc' = "index"
          /\ Stage("RepositoryDiscovered")
          /\ UNCHANGED <<stderr, exitCode>>
       \/ Panic("Failed to get current path") /\ UNCHANGED stages
       \/ Panic("No repository found") /\ UNCHANGED stages
    /\ UNCHANGED <<args, branch, message, headBranch, statuses, pos, index,
                   diskIndex, is_empty, trees, tree_id, user, parent, commits,
                   ref, oid, stdout>>

\* let mut index = repo.index(); let mut is_empty = true
LoadIndex ==
    /\ pc = "index"
    /\ \/ /\ index' = diskIndex
          /\ is_empty' = TRUE
          /\ pc' = "head"
          /\ Stage("IndexLoaded")
          /\ UNCHANGED <<stderr, exitCode>>
       \/ Panic("Index not found") /\ UNCHANGED <<index, is_empty, stages>>
    /\ UNCHANGED <<args, branch, message, headBranch, statuses, pos,
                   diskIndex, trees, tree_id, user, parent, commits,
                   ref, oid, stdout>>

\* let head = repo.head(); let branch = head.shorthand()
ResolveHead ==
    /\ pc = "head"
    /\ \/ /\ branch' = headBranch
          /\ pc' = "message"
          /\ Stage("BranchResolved")
          /\ UNCHANGED <<stderr, exitCode>>
       \/ Panic("No HEAD found") /\ UNCHANGED <<branch, stages>>
       \/ Panic("No branch found") /\ UNCHANGED <<branch, stages>>
    /\ UNCHANGED <<args, message, headBranch, statuses, pos, index,
                   diskIndex, is_empty, trees, tree_id, user, parent, commits,
                   ref, oid, stdout>>

\* let state = State { branch, args }; let message = state.message()
Compose ==
    /\ pc = "message"
    /\ message' = State_message(branch, args)
    /\ pc' = "statuses"
    /\ Stage("MessageComposed")
    /\ UNCHANGED <<args, branch, headBranch, statuses, pos, index,
                   diskIndex, is_empty, trees, tree_id, user, parent, commits,
                   ref, oid, exitCode, stderr, stdout>>

\* repo.statuses(None).unwrap().iter()
GetStatuses ==
    /\ pc = "statuses"
    /\ \/ /\ pos' = 1
          /\ pc' = "scan"
          /\ UNCHANGED <<stderr, exitCode>>
       \/ Panic("statuses") /\ UNCHANGED pos
    /\ UNCHANGED <<args, branch, message, headBranch, statuses, index,
                   diskIndex, is_empty, trees, tree_id, user, parent, commits,
                   ref, oid, stdout, stages>>

\* one iteration of the for loop: the entry's path, then the match on its status
ScanEntry ==
    /\ pc = "scan"
    /\ pos <= Len(statuses)
    /\ LET e == statuses[pos]
           arm == StatusArm(e.status)
       IN  \/ Panic("No path found") /\ UNCHANGED <<pos, index, is_empty>>
           \/ /\ arm = "add"
              /\ is_empty' = FALSE
              /\ \/ /\ index' = [index EXCEPT ![e.path] = "wt"]
                    /\ pos' = pos + 1
                    /\ UNCHANGED <<pc, stderr, exitCode>>
                 \/ Panic("Failed to add path") /\ UNCHANGED <<pos, index>>
           \/ /\ arm = "remove"
              /\ is_empty' = FALSE
              /\ \/ /\ index' = [index EXCEPT ![e.path] = "none"]
                    /\ pos' = pos + 1
                    /\ UNCHANGED <<pc, stderr, exitCode>>
                 \/ Panic("Failed to remove path") /\ UNCHANGED <<pos, index>>
           \/ /\ arm = "skip"
              /\ pos' = pos + 1
              /\ UNCHANGED <<pc, stderr, exitCode, index, is_empty>>
    /\ UNCHANGED <<args, branch, message, headBranch, statuses,
                   diskIndex, trees, tree_id, user, parent, commits,
                   ref, oid, stdout, stages>>

\* mutant: only an empty scan counts as nothing to commit
NothingStaged_noentries == Len(statuses) = 0

\* mutant: the index is not persisted before the tree is written
AfterScan_skipwrite == "write_tree"

\* the condition of if is_empty { ... exit(1) }
NothingStaged == is_empty

\* where main goes on when something was staged: index.write()
AfterScan == "write_index"

\* the loop is over: if is_empty { eprintln!("Nothing to commit"); exit(1) }
CheckEmpty ==
    /\ pc = "scan"
    /\ pos > Len(statuses)
    /\ \/ /\ NothingStaged
          /\ stderr' = Append(stderr, "Nothing to commit")
          /\ exitCode' = 1
          /\ pc' = "exited"
          /\ stages' = stages \o <<"StatusScanned", "NothingToCommit">>
       \/ /\ ~NothingStaged
          /\ pc' = AfterScan
          /\ Stage("StatusScanned")
          /\ UNCHANGED <<stderr, exitCode>>
    /\ UNCHANGED <<args, branch, message, headBranch, statuses, pos, index,
                   diskIndex, is_empty, trees, tree_id, user, parent, commits,
                   ref, oid, stdout>>

\* index.write()
WriteIndex ==
    /\ pc = "write_index"
    /\ \/ /\ diskIndex' = index
          /\ pc' = "write_tree"
          /\ Stage("IndexWritten")
          /\ UNCHANGED <<stderr, exitCode>>
       \/ Panic("Could not write index") /\ UNCHANGED <<diskIndex, stages>>
    /\ UNCHANGED <<args, branch, message, headBranch, statuses, pos, index,
                   is_empty, trees, tree_id, user, parent, commits,
                   ref, oid, stdout>>

\* let tree_id = index.write_tree()
WriteTree ==
    /\ pc = "write_tree"
    /\ \/ /\ trees' = trees \cup {index}
          /\ tree_id' = Some(index)
          /\ pc' = "find_tree"
          /\ Stage("TreeWritten")
          /\ UNCHANGED <<stderr, exitCode>>
       \/ Panic("Could not write tree") /\ UNCHANGED <<trees, tree_id, stages>>
    /\ UNCHANGED <<args, branch, message, headBranch, statuses, pos, index,
                   diskIndex, is_empty, user, parent, commits,
                   ref, oid, stdout>>

\* let tree = repo.find_tree(tree_id)
FindTree ==
    /\ pc = "find_tree"
    /\ \/ /\ tree_id[1] \in trees
          /\ pc' = "signature"
          /\ UNCHANGED <<stderr, exitCode>>
       \/ Panic("Could not find tree")
    /\ UNCHANGED <<args, branch, message, headBranch, statuses, pos, index,
                   diskIndex, is_empty, trees, tree_id, user, parent, commits,
                   ref, oid, stdout, stages>>

\* let user = &repo.signature()
Signature ==
    /\ pc = "signature"
    /\ \/ /\ user' = Some(Identity)
          /\ pc' = "head_id"
          /\ UNCHANGED <<stderr, exitCode>>
       \/ Panic("Could not get signature") /\ UNCHANGED user
    /\ UNCHANGED <<args, branch, message, headBranch, statuses, pos, index,
                   diskIndex, is_empty, trees, tree_id, parent, commits,
                   ref, oid, stdout, stages>>

\* let head_id = repo.head(); let head = head_id.target()
HeadId ==
    /\ pc = "head_id"
    /\ \/ /\ parent' = Some(ref)
          /\ pc' = "find_commit"
          /\ UNCHANGED <<stderr, exitCode>>
       \/ Panic("Could not get head id") /\ UNCHANGED parent
       \/ Panic("Could not get head") /\ UNCHANGED parent
    /\ UNCHANGED <<args, branch, message, headBranch, statuses, pos, index,
                   diskIndex, is_empty, trees, tree_id, user, commits,
                   ref, oid, stdout, stages>>

\* let parents = &[&repo.find_commit(head)]
FindParent ==
    /\ pc = "find_commit"
    /\ \/ /\ parent[1] \in 1..Len(commits)
          /\ pc' = "commit"
          /\ UNCHANGED <<stderr, exitCode>>
       \/ Panic("Could not find commit")
    /\ UNCHANGED <<args, branch, message, headBranch, statuses, pos, index,
                   diskIndex, is_empty, trees, tree_id, user, parent, commits,
                   ref, oid, stdout, stages>>

\* mutant: the commit is made without a parent
NewCommit_orphan ==
    [tree |-> tree_id[1], parents |-> <<>>, author |-> user[1],
     committer |-> user[1], message |-> message]

\* the commit object repo.commit(Some("HEAD"), user, user, &message, &tree, parents) makes
NewCommit ==
    [tree |-> tree_id[1], parents |-> <<parent[1]>>, author |-> user[1],
     committer |-> user[1], message |-> message]

\* let oid = repo.commit(Some("HEAD"), ...): the object, then HEAD's branch
Commit ==
    /\ pc = "commit"
    /\ \/ /\ commits' = Append(commits, NewCommit)
          /\ ref' = Len(commits) + 1
          /\ oid' = Some(Len(commits) + 1)
          /\ pc' = "find_new"
          /\ Stage("CommitCreated")
          /\ UNCHANGED <<stderr, exitCode>>
       \/ Panic("Could not commit") /\ UNCHANGED <<commits, ref, oid, stages>>
    /\ UNCHANGED <<args, branch, message, headBranch, statuses, pos, index,
                   diskIndex, is_empty, trees, tree_id, user, parent, stdout>>

\* let commit = repo.find_commit(oid); println!("{:?}", commit); main returns
PrintCommit ==
    /\ pc = "find_new"
    /\ \/ /\ stdout' = Append(stdout, commits[oid[1]])
          /\ exitCode' = 0
          /\ pc' = "exited"
          /\ UNCHANGED stderr
       \/ Panic("Could not newly created commit") /\ UNCHANGED stdout
    /\ UNCHANGED <<args, branch, message, headBranch, statuses, pos, index,
                   diskIndex, is_empty, trees, tree_id, user, parent, commits,
                   ref, oid, stages>>

Next ==
    \/ ParseArgs
    \/ Discover
    \/ LoadIndex
    \/ ResolveHead
    \/ Compose
    \/ GetStatuses
    \/ ScanEntry
    \/ CheckEmpty
    \/ WriteIndex
    \/ WriteTree
    \/ FindTree
    \/ Signature
    \/ HeadId
    \/ FindParent
    \/ Commit
    \/ PrintCommit

Spec == Init /\ [][Next]_vars

(***************************************************************************)
(* The unit tests of mod tests: a State built from any branch and any      *)
(* argument list (the empty one included), then state.message().           *)
(***************************************************************************)
InitMessage ==
    /\ pc = "test"
    /\ args \in ArgLists(MaxArgs)
    /\ branch \in BranchNames
    /\ message = <<>>
    /\ headBranch = <<>>
    /\ statuses = <<>>
    /\ pos = 0
    /\ index = NoIndex
    /\ diskIndex = NoIndex
    /\ is_empty = TRUE
    /\ trees = {}
    /\ tree_id = None
    /\ user = None
    /\ parent = None
    /\ commits = <<>>
    /\ ref = 0
    /\ oid = None
    /\ exitCode = -1
    /\ stderr = <<>>
    /\ stdout = <<>>
    /\ stages = <<>>

TestMessage ==
    /\ pc = "test"
    /\ message' = State_message(branch, args)
    /\ pc' = "tested"
    /\ UNCHANGED <<args, branch, headBranch, statuses, pos, index,
                   diskIndex, is_empty, trees, tree_id, user, parent, commits,
                   ref, oid, exitCode, stderr, stdout, stages>>

NextMessage == TestMessage

SpecMessage == InitMessage /\ [][NextMessage]_vars

(***************************************************************************)
(* What the claims speak of, stated without the operators of the model.    *)
(***************************************************************************)
\* w starts with the four characters K, D, B, -
HasTicketPrefix(w) ==
    Len(w) >= 4 /\ w[1] = "K" /\ w[2] = "D" /\ w[3] = "B" /\ w[4] = "-"

\* m is the words ws in order, one space between neighbours and nothing else
IsJoinOf(m, ws) ==
    LET n == Len(ws)
        end[i \in 0..n] == IF i = 0 THEN 0 ELSE end[i - 1] + Len(ws[i]) + 1
    IN  IF n = 0 THEN m = <<>>
        ELSE /\ Len(m) = end[n] - 1
             /\ \A i \in 1..n : SubSeq(m, end[i - 1] + 1, end[i] - 1) = ws[i]
             /\ \A i \in 1..(n - 1) : m[end[i]] = " "

\* id is b up to, not including, its first "/", or all of b when it has none
IsTicketOf(id, b) ==
    \E k \in 0..Len(b) :
        /\ id = SubSeq(b, 1, k)
        /\ \A j \in 1..k : b[j] # "/"
        /\ (k = Len(b) \/ b[k + 1] = "/")

\* C1: when the first argument starts with "KDB-", message() is the arguments
\* joined by single spaces, whatever the branch is
C1_ArgsTicketVerbatim ==
    (pc = "tested" /\ Len(args) > 0 /\ HasTicketPrefix(args[1]))
        => IsJoinOf(message, args)

\* C1's case: a ticket branch and a two-word list whose first word is a ticket
C1_Witness ==
    /\ pc = "tested"
    /\ Len(args) = 2
    /\ HasTicketPrefix(args[1])
    /\ HasTicketPrefix(branch)
    /\ message = args[1] \o <<" ">> \o args[2]

\* C2: on a branch that starts with "KDB-", with arguments (possibly none) whose
\* first does not, message() is the branch's part before its first "/" (all of
\* it without one) followed by the arguments, joined by single spaces; with no
\* arguments it is that identifier alone
C2_BranchTicketPrepended ==
    (pc = "tested" /\ HasTicketPrefix(branch)
        /\ (Len(args) = 0 \/ ~HasTicketPrefix(args[1])))
        => \E k \in 0..Len(branch) :
              LET id == SubSeq(branch, 1, k)
              IN  /\ IsTicketOf(id, branch)
                  /\ IsJoinOf(message, <<id>> \o args)
                  /\ (Len(args) = 0 => message = id)

\* C2's case: a ticket branch with two "/" and no arguments
C2_Witness ==
    /\ pc = "tested"
    /\ branch = <<"K", "D", "B", "-", "1", "/", "x", "/", "y">>
    /\ args = <<>>
    /\ message = <<"K", "D", "B", "-", "1">>

\* C3: on a branch that does not start with "KDB-" (case-sensitive), with
\* arguments whose first does not either, message() is the arguments joined by
\* single spaces, nothing prepended
C3_NoTicketUnmodified ==
    (pc = "tested" /\ ~HasTicketPrefix(branch)
        /\ (Len(args) = 0 \/ ~HasTicketPrefix(args[1])))
        => IsJoinOf(message, args)

\* C3's case: the lower-case branch kdb-1/x and two words
C3_Witness ==
    /\ pc = "tested"
    /\ branch = <<"k", "d", "b", "-", "1", "/", "x">>
    /\ Len(args) = 2
    /\ ~HasTicketPrefix(args[1])
    /\ message = args[1] \o <<" ">> \o args[2]

(***************************************************************************)
(* The run of main                                                         *)
(***************************************************************************)
Has(seq, x) == \E i \in 1..Len(seq) : seq[i] = x
IsPrefix(p, q) == Len(p) <= Len(q) /\ SubSeq(q, 1, Len(p)) = p

\* the for loop has run over every entry
Scanned == pos > Len(statuses)
\* the run is past the check that follows the loop
PastCheck == Has(stages, "StatusScanned")
\* nothing on disk has changed since the run started
DiskUntouched ==
    /\ diskIndex = InitialIndex(statuses)
    /\ trees = {BaseTree}
    /\ commits = <<BaseCommit>>
    /\ ref = 1

\* a status that says the path was added or modified, in the index, in the
\* working tree or both
IsAddedOrModified(st) ==
    st \cap {"INDEX_NEW", "INDEX_MODIFIED", "WT_NEW", "WT_MODIFIED"} # {}
\* a status that says the path was deleted
IsDeleted(st) == st \cap {"INDEX_DELETED", "WT_DELETED"} # {}
\* any other status: unmodified, ignored, conflicted
IsOther(st) == ~IsAddedOrModified(st) /\ ~IsDeleted(st)

\* C4: a scan that ends with nothing staged or removed ends the run in
\* NothingToCommit with exit code 1; the index file, the object database and
\* HEAD's branch are as they were when the run started
C4_NothingToCommit ==
    (PastCheck /\ is_empty)
        => /\ pc = "exited"
           /\ exitCode = 1
           /\ stages[Len(stages)] = "NothingToCommit"
           /\ stderr[Len(stderr)] = "Nothing to commit"
           /\ DiskUntouched

\* C4's case: a scan with entries, none of them staged, and the run over
C4_Witness ==
    /\ pc = "exited"
    /\ Len(statuses) = 2
    /\ is_empty
    /\ Has(stages, "NothingToCommit")
    /\ exitCode = 1

\* C5 as claimed: every failed run exits with code 1
C5_Claimed == exitCode \in {-1, 0, 1}

\* C5 as amended: a failed run exits with a non-zero code, which is 1 when there
\* are no arguments or nothing to commit, and the panic status 101 for every
\* other failure (each of them an expect or unwrap)
C5_FailureExitCodes ==
    (pc \in {"exited", "panicked"} /\ exitCode # 0)
        => /\ exitCode \in {1, PANIC_EXIT}
           /\ (exitCode = 1
                 <=> stderr[Len(stderr)] \in {"Usage", "Nothing to commit"})
           /\ (exitCode = PANIC_EXIT <=> pc = "panicked")

\* C5's case: the tree could not be written
C5_Witness ==
    /\ pc = "panicked"
    /\ Has(stderr, "Could not write tree")
    /\ exitCode = PANIC_EXIT

\* C6 as claimed: after the scan every added or modified path is in the index
\* with its working-tree content, every deleted path has no entry, and any such
\* entry marks the run as having something to commit
C6_Claimed ==
    Scanned =>
        \A i \in 1..Len(statuses) :
            LET e == statuses[i]
            IN  /\ IsAddedOrModified(e.status) => index[e.path] = "wt"
                /\ IsDeleted(e.status) => index[e.path] = "none"
                /\ (IsAddedOrModified(e.status) \/ IsDeleted(e.status))
                      => (~is_empty /\ ~Has(stages, "NothingToCommit"))

C9_CommitOnSuccess ==
    exitCode = 0
        => /\ Len(commits) = 2
           /\ Has(stages, "IndexWritten")
           /\ commits[2].tree = diskIndex
           /\ commits[2].tree \in trees
           /\ commits[2].parents = <<1>>
           /\ commits[2].author = Identity
           /\ commits[2].committer = Identity
           /\ commits[2].message = State_message(headBranch, args)
           /\ ref = 2
           /\ stdout = <<commits[2]>>

\* C9's case: a successful run on the ticket branch that staged a path and
\* removed another
C9_Witness ==
    /\ exitCode = 0
    /\ pc = "exited"
    /\ HasTicketPrefix(headBranch)
    /\ \E p, q \in Paths : diskIndex[p] = "wt" /\ diskIndex[q] = "none"
    /\ ref = 2

SuccessPath ==
    <<"RepositoryDiscovered", "IndexLoaded", "BranchResolved", "MessageComposed",
      "StatusScanned", "IndexWritten", "TreeWritten", "CommitCreated">>
NothingPath ==
    <<"RepositoryDiscovered", "IndexLoaded", "BranchResolved", "MessageComposed",
      "StatusScanned", "NothingToCommit">>

\* C10: the stages of a run are an initial part of one of the two orders; exit
\* 0 comes with all of the first, NothingToCommit with exit 1; the index file
\* changes only after a scan that staged something, a tree is written only
\* after the index file, a commit made only after the tree; a run that has
\* failed or exited takes no further step
C10_StageOrder ==
    /\ IsPrefix(stages, SuccessPath) \/ IsPrefix(stages, NothingPath)
    /\ exitCode = 0 <=> (pc = "exited" /\ stages = SuccessPath)
    /\ Has(stages, "NothingToCommit") => (pc = "exited" /\ exitCode = 1)
    /\ diskIndex # InitialIndex(statuses)
          => (Scanned /\ ~is_empty /\ Has(stages, "IndexWritten"))
    /\ Has(stages, "IndexWritten") => diskIndex = index
    /\ trees # {BaseTree}
          => (Has(stages, "TreeWritten") /\ trees = {BaseTree, diskIndex})
    /\ Len(commits) > 1 => Has(stages, "CommitCreated")
    /\ Has(stages, "StatusScanned") => Scanned
    /\ pc \in {"panicked", "exited"} => ~ENABLED Next

\* C10's case: the whole of the first order, the commit made
C10_Witness ==
    /\ stages = SuccessPath
    /\ pc = "exited"
    /\ Len(commits) = 2

====
